---- MODULE Spec2Model ----
(***************************************************************************)
(* Structured AI Problem-Solver: the four-step wizard of App, the          *)
(* generation client callGeminiAPI, and the solution/feedback splitter     *)
(* inside handleEventsSubmitted.                                           *)
(*                                                                         *)
(* A JavaScript string is a sequence of characters; a character is a       *)
(* one-element TLA+ string, except that the two non-ASCII characters the   *)
(* model needs are written by code point: "U+0130" (capital I with dot     *)
(* above) and "U+0307" (combining dot above).  Indices are 0-based, as in  *)
(* the source.                                                             *)
(***************************************************************************)
EXTENDS Integers, Sequences, FiniteSets, TLC

VARIABLES
  currentStep,              \* 1: Problem, 2: Questions, 3: Events, 4: Result
  problemStatement,
  aiGeneratedQuestions,
  userAnswersToQuestions,
  supportingEvents,
  finalSolution,
  finalFeedback,
  loading,
  errorMessage,
  calls,                    \* handler invocations suspended at `await callGeminiAPI`
  response                  \* the handlers' local `response`, as last assigned

vars == <<currentStep, problemStatement, aiGeneratedQuestions,
          userAnswersToQuestions, supportingEvents, finalSolution,
          finalFeedback, loading, errorMessage, calls, response>>

----------------------------------------------------------------------------
(* Bounds *)

MaxInputLen == 1   \* longest text typed into a textarea
MaxPieces == 4     \* longest service text, in pieces, of the splitter's specification

----------------------------------------------------------------------------
(* String literals of the source *)

EmptyString == <<>>

Undefined == <<"undefined-value">>   \* JavaScript's undefined (no string has this element)

NoResponse == <<"unassigned">>       \* `response` before any await has returned

ApiInvalidResponse ==
  <<"E","r","r","o","r",":"," ","C","o","u","l","d"," ","n","o","t"," ","g",
    "e","t"," ","a"," ","v","a","l","i","d"," ","r","e","s","p","o","n","s",
    "e"," ","f","r","o","m"," ","A","I","."," ","P","l","e","a","s","e"," ",
    "t","r","y"," ","a","g","a","i","n",".">>

ApiConnectError ==
  <<"E","r","r","o","r",":"," ","F","a","i","l","e","d"," ","t","o"," ","c",
    "o","n","n","e","c","t"," ","t","o"," ","A","I","."," ","P","l","e","a",
    "s","e"," ","c","h","e","c","k"," ","y","o","u","r"," ","n","e","t","w",
    "o","r","k"," ","o","r"," ","t","r","y"," ","a","g","a","i","n"," ","l",
    "a","t","e","r",".">>

SolutionMarker == <<"s","o","l","u","t","i","o","n",":">>

FeedbackMarker == <<"f","e","e","d","b","a","c","k",":">>

NoFeedbackPlaceholder ==
  <<"N","o"," ","e","x","p","l","i","c","i","t"," ","f","e","e","d","b","a",
    "c","k"," ","s","e","c","t","i","o","n"," ","f","o","u","n","d",","," ",
    "b","u","t"," ","c","o","n","s","i","d","e","r"," ","t","h","e"," ","s",
    "o","l","u","t","i","o","n","'","s"," ","c","l","a","r","i","t","y",
    ".">>

NoSolutionPlaceholder ==
  <<"N","o"," ","e","x","p","l","i","c","i","t"," ","s","o","l","u","t","i",
    "o","n"," ","s","e","c","t","i","o","n"," ","f","o","u","n","d",","," ",
    "b","u","t"," ","c","o","n","s","i","d","e","r"," ","t","h","e"," ","f",
    "e","e","d","b","a","c","k"," ","f","o","r"," ","y","o","u","r"," ","p",
    "r","o","b","l","e","m","-","s","o","l","v","i","n","g",".">>

CouldNotParseNotice ==
  <<"A","I"," ","g","e","n","e","r","a","t","e","d"," ","r","e","s","p","o",
    "n","s","e"," ","(","c","o","u","l","d"," ","n","o","t"," ","p","a","r",
    "s","e"," ","i","n","t","o"," ","s","p","e","c","i","f","i","c"," ","s",
    "o","l","u","t","i","o","n","/","f","e","e","d","b","a","c","k"," ","s",
    "e","c","t","i","o","n","s",")",":","\n">>

ProblemRequired == "Please describe your problem to proceed."

AnswersRequired == "Please answer the questions to proceed."

EventsRequired == "Please provide some relevant events or details to proceed."

NoError == ""

----------------------------------------------------------------------------
(* String primitives of JavaScript used by the source *)

WhiteSpace == {" ", "\n"}

RECURSIVE TrimStart(_)
TrimStart(s) ==
  IF s # <<>> /\ Head(s) \in WhiteSpace THEN TrimStart(Tail(s)) ELSE s

RECURSIVE TrimEnd(_)
TrimEnd(s) ==
  IF s # <<>> /\ s[Len(s)] \in WhiteSpace
    THEN TrimEnd(SubSeq(s, 1, Len(s) - 1))
    ELSE s

\* String.prototype.trim
Trim(s) == TrimEnd(TrimStart(s))

\* The characters whose lower-case form differs from themselves.  U+0130
\* lower-cases to the two characters "i" U+0307.
LowerCaseOf ==
  "A" :> <<"a">> @@ "B" :> <<"b">> @@ "C" :> <<"c">> @@ "D" :> <<"d">> @@
  "E" :> <<"e">> @@ "F" :> <<"f">> @@ "G" :> <<"g">> @@ "H" :> <<"h">> @@
  "I" :> <<"i">> @@ "J" :> <<"j">> @@ "K" :> <<"k">> @@ "L" :> <<"l">> @@
  "M" :> <<"m">> @@ "N" :> <<"n">> @@ "O" :> <<"o">> @@ "P" :> <<"p">> @@
  "Q" :> <<"q">> @@ "R" :> <<"r">> @@ "S" :> <<"s">> @@ "T" :> <<"t">> @@
  "U" :> <<"u">> @@ "V" :> <<"v">> @@ "W" :> <<"w">> @@ "X" :> <<"x">> @@
  "Y" :> <<"y">> @@ "Z" :> <<"z">> @@ "U+0130" :> <<"i", "U+0307">>

LowerChar(c) == IF c \in DOMAIN LowerCaseOf THEN LowerCaseOf[c] ELSE <<c>>

\* String.prototype.toLowerCase
RECURSIVE ToLowerCase(_)
ToLowerCase(s) ==
  IF s = <<>> THEN <<>> ELSE LowerChar(Head(s)) \o ToLowerCase(Tail(s))

Clamp(n, len) == IF n < 0 THEN 0 ELSE IF n > len THEN len ELSE n

\* String.prototype.substring(start, end): both clamped to 0..length, swapped
\* when start > end; the characters at 0-based start..end-1
Substring(s, start, end) ==
  LET a == Clamp(start, Len(s))
      b == Clamp(end, Len(s))
      lo == IF a <= b THEN a ELSE b
      hi == IF a <= b THEN b ELSE a
  IN SubSeq(s, lo + 1, hi)

\* String.prototype.substring(start)
SubstringFrom(s, start) == Substring(s, start, Len(s))

\* String.prototype.indexOf: 0-based index of the first occurrence, or -1
IndexOf(s, m) ==
  LET hits == {i \in 0..(Len(s) - Len(m)) : SubSeq(s, i + 1, i + Len(m)) = m}
  IN IF hits = {} THEN -1 ELSE CHOOSE i \in hits : \A j \in hits : i <= j

----------------------------------------------------------------------------
(* What the user may type and what the service may answer *)

SeqsUpTo(S, n) == UNION {[1..k -> S] : k \in 0..n}

UserChars == {" ", "a"}

UserTexts == SeqsUpTo(UserChars, MaxInputLen)

SolutionLabel == <<"S","o","l","u","t","i","o","n",":">>

FeedbackLabel == <<"F","e","e","d","b","a","c","k",":">>

\* Texts the service returns in the wizard's specification
WizardTexts ==
  { <<"1", ".", " ", "q", "?">>,
    SolutionLabel \o <<" ", "A", "\n">> \o FeedbackLabel \o <<" ", "B">>,
    FeedbackLabel \o <<" ", "B", "\n">> \o SolutionLabel \o <<" ", "A">>,
    SolutionLabel \o FeedbackLabel,
    SolutionLabel \o <<" ", "A">>,
    FeedbackLabel \o <<" ", "B">>,
    EmptyString }

\* How one fetch / response.json() exchange can end: fetch or json() throws;
\* or a JSON body arrives, with or without candidates[0].content.parts[0],
\* whose `text` is a string or is absent (undefined).
Exchange(threw, status, hasPart, text) ==
  [threw |-> threw, status |-> status, hasPart |-> hasPart, text |-> text]

Pending == Exchange(FALSE, 0, FALSE, NoResponse)   \* fetch not yet settled

ExchangesOver(texts) ==
  {Exchange(TRUE, 0, FALSE, Undefined)}
    \cup {Exchange(FALSE, st, FALSE, Undefined) : st \in {200, 500}}
    \cup {Exchange(FALSE, 200, TRUE, t) : t \in texts \cup {Undefined}}

WizardExchanges == ExchangesOver(WizardTexts)

----------------------------------------------------------------------------
(* callGeminiAPI: the value the awaited call returns for a settled exchange *)

\* callGeminiAPI with the test of the response structure inverted
callGeminiAPIInverted(x) ==
  IF x.threw THEN ApiConnectError
  ELSE IF ~x.hasPart THEN x.text
  ELSE ApiInvalidResponse

callGeminiAPI(x) ==
  IF x.threw THEN ApiConnectError
  ELSE IF x.hasPart THEN x.text
  ELSE ApiInvalidResponse

----------------------------------------------------------------------------
(* The splitter of handleEventsSubmitted *)

solutionStartIndex(resp) == IndexOf(ToLowerCase(resp), SolutionMarker)

feedbackStartIndex(resp) == IndexOf(ToLowerCase(resp), FeedbackMarker)

\* SplitSolution whose fallback drops the notice
SplitSolutionNoNotice(resp) ==
  LET si == solutionStartIndex(resp)
      fi == feedbackStartIndex(resp)
  IN IF si # -1 /\ fi # -1
       THEN IF si < fi
              THEN Trim(Substring(resp, si + Len(SolutionMarker), fi))
              ELSE Trim(SubstringFrom(resp, si + Len(SolutionMarker)))
     ELSE IF si # -1 THEN Trim(SubstringFrom(resp, si + Len(SolutionMarker)))
     ELSE IF fi # -1 THEN NoSolutionPlaceholder
     ELSE resp

SplitSolution(resp) ==
  LET si == solutionStartIndex(resp)
      fi == feedbackStartIndex(resp)
  IN IF si # -1 /\ fi # -1
       THEN IF si < fi
              THEN Trim(Substring(resp, si + Len(SolutionMarker), fi))
              ELSE Trim(SubstringFrom(resp, si + Len(SolutionMarker)))
     ELSE IF si # -1 THEN Trim(SubstringFrom(resp, si + Len(SolutionMarker)))
     ELSE IF fi # -1 THEN NoSolutionPlaceholder
     ELSE CouldNotParseNotice \o resp

SplitFeedback(resp) ==
  LET si == solutionStartIndex(resp)
      fi == feedbackStartIndex(resp)
  IN IF si # -1 /\ fi # -1
       THEN IF si < fi
              THEN Trim(SubstringFrom(resp, fi + Len(FeedbackMarker)))
              ELSE Trim(Substring(resp, fi + Len(FeedbackMarker), si))
     ELSE IF si # -1 THEN NoFeedbackPlaceholder
     ELSE IF fi # -1 THEN Trim(SubstringFrom(resp, fi + Len(FeedbackMarker)))
     ELSE EmptyString

----------------------------------------------------------------------------
(* The wizard *)

Init ==
  /\ currentStep = 1
  /\ problemStatement = EmptyString
  /\ aiGeneratedQuestions = EmptyString
  /\ userAnswersToQuestions = EmptyString
  /\ supportingEvents = EmptyString
  /\ finalSolution = EmptyString
  /\ finalFeedback = EmptyString
  /\ loading = FALSE
  /\ errorMessage = NoError
  /\ calls = <<>>
  /\ response = NoResponse

\* IsBlank without the trim: `!value`
IsBlankNoTrim(value) == value = EmptyString

\* `!value.trim()`
IsBlank(value) == Trim(value) = EmptyString

\* A step's button is rendered at its step and carries disabled={loading}
ButtonEnabled(step) == currentStep = step /\ ~loading

\* `const apiKey = "";` of callGeminiAPI, put into the request URL
apiKey == EmptyString

Call(handler, prompt) ==
  [handler |-> handler, prompt |-> prompt, apiKey |-> apiKey, exchange |-> Pending]

RemoveAt(q, i) == SubSeq(q, 1, i - 1) \o SubSeq(q, i + 1, Len(q))

\* onChange of the step 1 textarea (rendered while currentStep = 1)
setProblemStatement ==
  /\ currentStep = 1
  /\ \E v \in UserTexts : problemStatement' = v
  /\ UNCHANGED <<currentStep, aiGeneratedQuestions, userAnswersToQuestions,
                 supportingEvents, finalSolution, finalFeedback, loading,
                 errorMessage, calls, response>>

\* onChange of the step 2 textarea
setUserAnswersToQuestions ==
  /\ currentStep = 2
  /\ \E v \in UserTexts : userAnswersToQuestions' = v
  /\ UNCHANGED <<currentStep, problemStatement, aiGeneratedQuestions,
                 supportingEvents, finalSolution, finalFeedback, loading,
                 errorMessage, calls, response>>

\* onChange of the step 3 textarea
setSupportingEvents ==
  /\ currentStep = 3
  /\ \E v \in UserTexts : supportingEvents' = v
  /\ UNCHANGED <<currentStep, problemStatement, aiGeneratedQuestions,
                 userAnswersToQuestions, finalSolution, finalFeedback, loading,
                 errorMessage, calls, response>>

\* handleProblemSubmit up to its await
handleProblemSubmit ==
  /\ ButtonEnabled(1)
  /\ IF IsBlank(problemStatement)
       THEN /\ errorMessage' = ProblemRequired
            /\ UNCHANGED <<loading, calls>>
       ELSE /\ loading' = TRUE
            /\ errorMessage' = NoError
            /\ calls' = Append(calls, Call("problem", <<problemStatement>>))
  /\ UNCHANGED <<currentStep, problemStatement, aiGeneratedQuestions,
                 userAnswersToQuestions, supportingEvents, finalSolution,
                 finalFeedback, response>>

\* The fetch of an outstanding call settles
fetchSettles(exchanges) ==
  \E i \in 1..Len(calls) :
    /\ calls[i].exchange = Pending
    /\ \E x \in exchanges : calls' = [calls EXCEPT ![i].exchange = x]
    /\ UNCHANGED <<currentStep, problemStatement, aiGeneratedQuestions,
                   userAnswersToQuestions, supportingEvents, finalSolution,
                   finalFeedback, loading, errorMessage, response>>

\* handleProblemSubmitResume reissuing a failed call by itself
handleProblemSubmitResumeRetries ==
  \E i \in 1..Len(calls) :
    /\ calls[i].handler = "problem"
    /\ calls[i].exchange # Pending
    /\ IF calls[i].exchange.threw
         THEN /\ calls' = [calls EXCEPT ![i].exchange = Pending]
              /\ UNCHANGED <<response, aiGeneratedQuestions, loading, currentStep>>
         ELSE /\ response' = callGeminiAPI(calls[i].exchange)
              /\ aiGeneratedQuestions' = response'
              /\ loading' = FALSE
              /\ currentStep' = 2
              /\ calls' = RemoveAt(calls, i)
    /\ UNCHANGED <<problemStatement, userAnswersToQuestions, supportingEvents,
                   finalSolution, finalFeedback, errorMessage>>

\* handleProblemSubmitResume storing the response with the wrong setter
handleProblemSubmitResumeWrongSetter ==
  \E i \in 1..Len(calls) :
    /\ calls[i].handler = "problem"
    /\ calls[i].exchange # Pending
    /\ response' = callGeminiAPI(calls[i].exchange)
    /\ finalSolution' = response'
    /\ loading' = FALSE
    /\ currentStep' = 2
    /\ calls' = RemoveAt(calls, i)
    /\ UNCHANGED <<problemStatement, aiGeneratedQuestions, userAnswersToQuestions,
                   supportingEvents, finalFeedback, errorMessage>>

\* handleProblemSubmit from the return of its await to its end
handleProblemSubmitResume ==
  \E i \in 1..Len(calls) :
    /\ calls[i].handler = "problem"
    /\ calls[i].exchange # Pending
    /\ response' = callGeminiAPI(calls[i].exchange)
    /\ aiGeneratedQuestions' = response'
    /\ loading' = FALSE
    /\ currentStep' = 2
    /\ calls' = RemoveAt(calls, i)
    /\ UNCHANGED <<problemStatement, userAnswersToQuestions, supportingEvents,
                   finalSolution, finalFeedback, errorMessage>>

\* handleQuestionsAnswered without setErrorMessage('')
handleQuestionsAnsweredKeepsError ==
  /\ ButtonEnabled(2)
  /\ IF IsBlank(userAnswersToQuestions)
       THEN /\ errorMessage' = AnswersRequired
            /\ UNCHANGED currentStep
       ELSE /\ UNCHANGED errorMessage
            /\ currentStep' = 3
  /\ UNCHANGED <<problemStatement, aiGeneratedQuestions, userAnswersToQuestions,
                 supportingEvents, finalSolution, finalFeedback, loading,
                 calls, response>>

\* handleQuestionsAnswered clearing the answers as it advances
handleQuestionsAnsweredClearsAnswers ==
  /\ ButtonEnabled(2)
  /\ IF IsBlank(userAnswersToQuestions)
       THEN /\ errorMessage' = AnswersRequired
            /\ UNCHANGED <<currentStep, userAnswersToQuestions>>
       ELSE /\ errorMessage' = NoError
            /\ currentStep' = 3
            /\ userAnswersToQuestions' = EmptyString
  /\ UNCHANGED <<problemStatement, aiGeneratedQuestions, supportingEvents,
                 finalSolution, finalFeedback, loading, calls, response>>

\* handleQuestionsAnswered advancing to the wrong step
handleQuestionsAnsweredSkips ==
  /\ ButtonEnabled(2)
  /\ IF IsBlank(userAnswersToQuestions)
       THEN /\ errorMessage' = AnswersRequired
            /\ UNCHANGED currentStep
       ELSE /\ errorMessage' = NoError
            /\ currentStep' = 4
  /\ UNCHANGED <<problemStatement, aiGeneratedQuestions, userAnswersToQuestions,
                 supportingEvents, finalSolution, finalFeedback, loading,
                 calls, response>>

handleQuestionsAnswered ==
  /\ ButtonEnabled(2)
  /\ IF IsBlank(userAnswersToQuestions)
       THEN /\ errorMessage' = AnswersRequired
            /\ UNCHANGED currentStep
       ELSE /\ errorMessage' = NoError
            /\ currentStep' = 3
  /\ UNCHANGED <<problemStatement, aiGeneratedQuestions, userAnswersToQuestions,
                 supportingEvents, finalSolution, finalFeedback, loading,
                 calls, response>>

\* handleEventsSubmitted with setLoading(true) ahead of the validation
handleEventsSubmittedLoadsFirst ==
  /\ ButtonEnabled(3)
  /\ loading' = TRUE
  /\ IF IsBlank(supportingEvents)
       THEN /\ errorMessage' = EventsRequired
            /\ UNCHANGED calls
       ELSE /\ errorMessage' = NoError
            /\ calls' = Append(calls,
                 Call("events",
                      <<problemStatement, userAnswersToQuestions, supportingEvents>>))
  /\ UNCHANGED <<currentStep, problemStatement, aiGeneratedQuestions,
                 userAnswersToQuestions, supportingEvents, finalSolution,
                 finalFeedback, response>>

\* handleEventsSubmitted up to its await
handleEventsSubmitted ==
  /\ ButtonEnabled(3)
  /\ IF IsBlank(supportingEvents)
       THEN /\ errorMessage' = EventsRequired
            /\ UNCHANGED <<loading, calls>>
       ELSE /\ loading' = TRUE
            /\ errorMessage' = NoError
            /\ calls' = Append(calls,
                 Call("events",
                      <<problemStatement, userAnswersToQuestions, supportingEvents>>))
  /\ UNCHANGED <<currentStep, problemStatement, aiGeneratedQuestions,
                 userAnswersToQuestions, supportingEvents, finalSolution,
                 finalFeedback, response>>

\* handleEventsSubmitted from the return of its await to its end.  With an
\* undefined `response`, response.toLowerCase() throws a TypeError: the
\* handler ends there and none of the setters after it runs.
handleEventsSubmittedResume ==
  \E i \in 1..Len(calls) :
    /\ calls[i].handler = "events"
    /\ calls[i].exchange # Pending
    /\ LET returned == callGeminiAPI(calls[i].exchange)
       IN /\ response' = returned
          /\ IF returned = Undefined
               THEN UNCHANGED <<finalSolution, finalFeedback, loading, currentStep>>
               ELSE /\ finalSolution' = SplitSolution(returned)
                    /\ finalFeedback' = SplitFeedback(returned)
                    /\ loading' = FALSE
                    /\ currentStep' = 4
    /\ calls' = RemoveAt(calls, i)
    /\ UNCHANGED <<problemStatement, aiGeneratedQuestions, userAnswersToQuestions,
                   supportingEvents, errorMessage>>

\* handleRestart without setSupportingEvents('')
handleRestartKeepsEvents ==
  /\ currentStep = 4
  /\ currentStep' = 1
  /\ problemStatement' = EmptyString
  /\ aiGeneratedQuestions' = EmptyString
  /\ userAnswersToQuestions' = EmptyString
  /\ finalSolution' = EmptyString
  /\ finalFeedback' = EmptyString
  /\ errorMessage' = NoError
  /\ UNCHANGED <<supportingEvents, loading, calls, response>>

\* The restart button is rendered at step 4, never disabled
handleRestart ==
  /\ currentStep = 4
  /\ currentStep' = 1
  /\ problemStatement' = EmptyString
  /\ aiGeneratedQuestions' = EmptyString
  /\ userAnswersToQuestions' = EmptyString
  /\ supportingEvents' = EmptyString
  /\ finalSolution' = EmptyString
  /\ finalFeedback' = EmptyString
  /\ errorMessage' = NoError
  /\ UNCHANGED <<loading, calls, response>>

Next ==
  \/ setProblemStatement
  \/ setUserAnswersToQuestions
  \/ setSupportingEvents
  \/ handleProblemSubmit
  \/ handleQuestionsAnswered
  \/ handleEventsSubmitted
  \/ fetchSettles(WizardExchanges)
  \/ handleProblemSubmitResume
  \/ handleEventsSubmittedResume
  \/ handleRestart

Spec == Init /\ [][Next]_vars

\* The wizard under the assumption that every issued call settles and that
\* a continuation whose await has returned runs: the service and the
\* JavaScript job queue are fair, the user is not.
\* The last conjunct is WF_vars(handleEventsSubmittedResume) written out,
\* with the action's enabling condition given as a state predicate.
EventsCallReturned ==
  \E i \in 1..Len(calls) : calls[i].handler = "events" /\ calls[i].exchange # Pending

FairSpec ==
  /\ Spec
  /\ WF_vars(fetchSettles(WizardExchanges))
  /\ WF_vars(handleProblemSubmitResume)
  /\ ([]<>~EventsCallReturned \/ []<><<handleEventsSubmittedResume>>_vars)

----------------------------------------------------------------------------
(* The splitter on its own: the wizard waits at step 3 for the answer to  *)
(* one events call, and the service answers with any text made of at most *)
(* MaxPieces pieces.                                                       *)

Pieces ==
  { SolutionLabel, SolutionMarker, FeedbackLabel,
    <<" ">>, <<"\n">>, <<"A">>, <<"B">>, <<"U+0130">> }

RECURSIVE Flatten(_)
Flatten(ps) == IF ps = <<>> THEN <<>> ELSE Head(ps) \o Flatten(Tail(ps))

SplitTexts == {Flatten(ps) : ps \in SeqsUpTo(Pieces, MaxPieces)}

SplitExchanges == ExchangesOver(SplitTexts)

SplitInit ==
  /\ currentStep = 3
  /\ problemStatement = <<"a">>
  /\ aiGeneratedQuestions = <<"1", ".", " ", "q", "?">>
  /\ userAnswersToQuestions = <<"a">>
  /\ supportingEvents = <<"a">>
  /\ finalSolution = EmptyString
  /\ finalFeedback = EmptyString
  /\ loading = TRUE
  /\ errorMessage = NoError
  /\ calls = <<Call("events", <<<<"a">>, <<"a">>, <<"a">>>>)>>
  /\ response = <<"1", ".", " ", "q", "?">>

SplitNext ==
  \/ fetchSettles(SplitExchanges)
  \/ handleEventsSubmittedResume

SplitSpec == SplitInit /\ [][SplitNext]_vars

----------------------------------------------------------------------------
(* Vocabulary of the properties *)

\* A field that is empty or holds white space only
OnlyWhiteSpace(value) == \A k \in 1..Len(value) : value[k] \in WhiteSpace

\* An exchange that failed: transport failure, or a body with no usable candidate
Failed(x) == x.threw \/ ~x.hasPart

\* This step is the end of the handler invocation calls[i]
Finishes(i) == calls' = RemoveAt(calls, i) /\ calls[i].exchange # Pending

\* 1-based position of the first occurrence of `marker`, letter case
\* ignored, in `text` itself; 0 when there is none
OccursAt(text, p, marker) ==
  /\ p + Len(marker) - 1 <= Len(text)
  /\ \A j \in 1..Len(marker) : LowerChar(text[p + j - 1]) = <<marker[j]>>

FirstOccurrence(text, marker) ==
  LET ps == {p \in 1..Len(text) : OccursAt(text, p, marker)}
  IN IF ps = {} THEN 0 ELSE CHOOSE p \in ps : \A q \in ps : p <= q

\* The section that follows the marker at position p and ends before position q
SectionBetween(text, p, marker, q) == Trim(SubSeq(text, p + Len(marker), q - 1))

SectionToEnd(text, p, marker) == Trim(SubSeq(text, p + Len(marker), Len(text)))

----------------------------------------------------------------------------
(* Properties *)

\* C1: when an events call whose generation failed finishes, the wizard is
\* still at step 3 and shows a non-empty errorMessage (it does not reach
\* the result view).
C1_FailedEventsCallStays ==
  [][\A i \in 1..Len(calls) :
       (calls[i].handler = "events" /\ Failed(calls[i].exchange) /\ Finishes(i))
         => (currentStep' = 3 /\ errorMessage' # NoError)]_vars

\* C2: when a problem call whose generation failed finishes, the wizard is
\* still at step 1, errorMessage is non-empty and aiGeneratedQuestions is
\* not filled with the failure.
C2_FailedProblemCallStays ==
  [][\A i \in 1..Len(calls) :
       (calls[i].handler = "problem" /\ Failed(calls[i].exchange) /\ Finishes(i))
         => /\ currentStep' = 1
            /\ errorMessage' # NoError
            /\ aiGeneratedQuestions' = aiGeneratedQuestions]_vars

\* C3: a submission at step 1, 2 or 3 whose required field is empty or white
\* space only is rejected: the step does not change, errorMessage becomes
\* non-empty and no generation call is issued.
C3_BlankSubmissionRejected ==
  [][LET Rejected == /\ currentStep' = currentStep
                     /\ errorMessage' # NoError
                     /\ calls' = calls
     IN /\ (handleProblemSubmit /\ OnlyWhiteSpace(problemStatement)) => Rejected
        /\ (handleQuestionsAnswered /\ OnlyWhiteSpace(userAnswersToQuestions)) => Rejected
        /\ (handleEventsSubmitted /\ OnlyWhiteSpace(supportingEvents)) => Rejected]_vars

\* C3 witness: a white-space-only events field was submitted and rejected.
C3_RejectedAtEvents ==
  /\ currentStep = 3
  /\ errorMessage = EventsRequired
  /\ supportingEvents = <<" ">>
  /\ calls = <<>>

\* C4: in every reachable state the required field of every step already
\* passed is non-empty after trimming.
C4_PassedFieldsNonBlank ==
  /\ currentStep > 1 => ~OnlyWhiteSpace(problemStatement)
  /\ currentStep > 2 => ~OnlyWhiteSpace(userAnswersToQuestions)
  /\ currentStep = 4 => ~OnlyWhiteSpace(supportingEvents)

\* C5: in every step currentStep stays the same, advances by exactly one, or
\* goes from 4 back to 1 through restart.
C5_StepForwardOrRestart ==
  [][\/ currentStep' = currentStep
     \/ currentStep' = currentStep + 1 /\ currentStep < 4
     \/ currentStep = 4 /\ currentStep' = 1 /\ handleRestart]_vars

\* C5 witness: the wizard went forward through the steps, was restarted, and
\* the user is typing the next problem.
C5_BackAtStepOneTyping ==
  /\ currentStep = 1
  /\ response # NoResponse
  /\ problemStatement = <<"a">>

\* C6: the step that leaves the result view sets currentStep to 1 and every
\* field of the session record to its initial value; the state after it is
\* the initial state.
C6_RestartResetsEverything ==
  [][(currentStep = 4 /\ currentStep' # 4)
       => /\ currentStep' = 1
          /\ problemStatement' = EmptyString
          /\ aiGeneratedQuestions' = EmptyString
          /\ userAnswersToQuestions' = EmptyString
          /\ supportingEvents' = EmptyString
          /\ finalSolution' = EmptyString
          /\ finalFeedback' = EmptyString
          /\ errorMessage' = NoError
          /\ loading' = FALSE
          /\ calls' = <<>>]_vars

\* C6 witness: the state right after a restart from a populated result view.
C6_FreshAfterRestart ==
  /\ currentStep = 1
  /\ response = SolutionLabel \o <<" ", "A", "\n">> \o FeedbackLabel \o <<" ", "B">>
  /\ problemStatement = EmptyString
  /\ finalSolution = EmptyString
  /\ finalFeedback = EmptyString
  /\ ~loading

\* C7: at most one generation call is outstanding, and loading is true
\* exactly when a call is pending.
C7_OneCallLoadingIffPending ==
  /\ Len(calls) <= 1
  /\ loading <=> calls # <<>>

\* The part of C7 that the code keeps: never two outstanding calls, and
\* loading is true whenever a call is pending.
C7_AtMostOneCall ==
  /\ Len(calls) <= 1
  /\ calls # <<>> => loading

\* C8: finalSolution and finalFeedback change only in the step from 3 to 4
\* and in the restart that clears them; outside step 4 both are empty.
C8_ResultsOnlyAtResultView ==
  /\ [](currentStep # 4 => finalSolution = EmptyString /\ finalFeedback = EmptyString)
  /\ [][(finalSolution' # finalSolution \/ finalFeedback' # finalFeedback)
          => \/ currentStep = 3 /\ currentStep' = 4
             \/ /\ currentStep = 4 /\ currentStep' = 1
                /\ finalSolution' = EmptyString
                /\ finalFeedback' = EmptyString]_vars

\* C8 witness: the result view populated by the step from 3 to 4.
C8_ResultViewPopulated ==
  /\ currentStep = 4
  /\ finalSolution = <<"A">>
  /\ finalFeedback = <<"B">>

\* C9: for a text holding both markers, the earlier marker's section runs
\* from just after it to the start of the other marker and the later
\* marker's section runs to the end of the text, both trimmed.
C9_BothMarkersSplit ==
  LET s == FirstOccurrence(response, SolutionMarker)
      f == FirstOccurrence(response, FeedbackMarker)
  IN (currentStep = 4 /\ s # 0 /\ f # 0)
       => IF s < f
            THEN /\ finalSolution = SectionBetween(response, s, SolutionMarker, f)
                 /\ finalFeedback = SectionToEnd(response, f, FeedbackMarker)
            ELSE /\ finalFeedback = SectionBetween(response, f, FeedbackMarker, s)
                 /\ finalSolution = SectionToEnd(response, s, SolutionMarker)

\* C9 restricted to texts in which U+0130 does not occur
C9_BothMarkersSplitNoDottedI ==
  (\A k \in 1..Len(response) : response[k] # "U+0130") => C9_BothMarkersSplit

\* C10: for a text holding exactly one marker, that marker's section is the
\* trimmed text after it and the other section is its fixed placeholder.
C10_OneMarkerSplit ==
  LET s == FirstOccurrence(response, SolutionMarker)
      f == FirstOccurrence(response, FeedbackMarker)
  IN /\ (currentStep = 4 /\ s # 0 /\ f = 0)
          => /\ finalSolution = SectionToEnd(response, s, SolutionMarker)
             /\ finalFeedback = NoFeedbackPlaceholder
     /\ (currentStep = 4 /\ s = 0 /\ f # 0)
          => /\ finalFeedback = SectionToEnd(response, f, FeedbackMarker)
             /\ finalSolution = NoSolutionPlaceholder

\* C10 restricted to texts in which U+0130 does not occur
C10_OneMarkerSplitNoDottedI ==
  (\A k \in 1..Len(response) : response[k] # "U+0130") => C10_OneMarkerSplit

\* The exchange succeeded: a body whose first part carries a text
Succeeded(x) == ~x.threw /\ x.hasPart /\ x.text # Undefined

\* C11: for a text holding neither marker the splitter does not fail: the
\* handler reaches step 4, finalSolution is the could-not-parse notice
\* followed by the whole text unchanged, and finalFeedback is empty.
C11_NoMarkerFallback ==
  (/\ calls = <<>>
   /\ response # Undefined
   /\ FirstOccurrence(response, SolutionMarker) = 0
   /\ FirstOccurrence(response, FeedbackMarker) = 0)
    => /\ currentStep = 4
       /\ finalSolution = CouldNotParseNotice \o response
       /\ finalFeedback = EmptyString

\* C11 witness: a text without markers went through the splitter.
C11_PlainTextSplit ==
  /\ currentStep = 4
  /\ response = <<"A", " ", "B">>
  /\ finalSolution = CouldNotParseNotice \o <<"A", " ", "B">>
  /\ finalFeedback = EmptyString

\* C12: when a problem call whose generation succeeded with text T
\* finishes, the wizard goes from step 1 to step 2 with aiGeneratedQuestions
\* = T, errorMessage empty and no user-entered field changed.
C12_ProblemSuccessAdvances ==
  [][\A i \in 1..Len(calls) :
       (calls[i].handler = "problem" /\ Succeeded(calls[i].exchange) /\ Finishes(i))
         => /\ currentStep = 1
            /\ currentStep' = 2
            /\ aiGeneratedQuestions' = calls[i].exchange.text
            /\ errorMessage' = NoError
            /\ problemStatement' = problemStatement
            /\ userAnswersToQuestions' = userAnswersToQuestions
            /\ supportingEvents' = supportingEvents]_vars

\* C12 witness: step 2 reached with the service's questions stored.
C12_QuestionsStored ==
  /\ currentStep = 2
  /\ aiGeneratedQuestions = <<"1", ".", " ", "q", "?">>
  /\ problemStatement = <<"a">>
  /\ errorMessage = NoError
  /\ ~loading

\* A value that is an ordinary string, as generated text is
IsString(v) == v # Undefined /\ v # NoResponse

\* C13: the generation client reports a failed exchange as a failure
\* outcome, never as an ordinary string that the caller cannot tell from
\* generated text.
C13_FailureIsNotAString ==
  [][\A i \in 1..Len(calls) :
       (Failed(calls[i].exchange) /\ Finishes(i)) => ~IsString(response')]_vars

\* C14: whenever currentStep changes, errorMessage is empty in the state
\* right after the change.
C14_StepChangeClearsError ==
  [][currentStep' # currentStep => errorMessage' = NoError]_vars

\* C14 witness: step 3 entered from step 2 with errorMessage empty, after a
\* first call that had failed.
C14_CleanAtEvents ==
  /\ currentStep = 3
  /\ errorMessage = NoError
  /\ userAnswersToQuestions = <<"a">>
  /\ aiGeneratedQuestions = ApiInvalidResponse

\* C15: a submission at step 2 with non-blank answers advances to step 3,
\* issues no generation call and changes no other field.
C15_AnswersSubmitAdvances ==
  [][(handleQuestionsAnswered /\ ~OnlyWhiteSpace(userAnswersToQuestions))
       => /\ currentStep' = 3
          /\ calls' = calls
          /\ loading' = loading
          /\ problemStatement' = problemStatement
          /\ aiGeneratedQuestions' = aiGeneratedQuestions
          /\ userAnswersToQuestions' = userAnswersToQuestions
          /\ supportingEvents' = supportingEvents
          /\ finalSolution' = finalSolution
          /\ finalFeedback' = finalFeedback]_vars

\* C15 witness: step 3 just entered, nothing typed there yet, no call made.
C15_AtEventsNoCall ==
  /\ currentStep = 3
  /\ userAnswersToQuestions = <<"a">>
  /\ supportingEvents = EmptyString
  /\ calls = <<>>
  /\ ~loading

\* C16: an accepted submission at step 1 or 3 issues exactly one request,
\* requests are issued by those submissions only, and a request whose
\* exchange has settled is never issued again.
C16_OneRequestPerSubmission ==
  [][/\ (handleProblemSubmit /\ ~OnlyWhiteSpace(problemStatement))
          => calls' = Append(calls, Call("problem", <<problemStatement>>))
     /\ (handleEventsSubmitted /\ ~OnlyWhiteSpace(supportingEvents))
          => Len(calls') = Len(calls) + 1
     /\ Len(calls') > Len(calls) => (handleProblemSubmit \/ handleEventsSubmitted)
     /\ \A i \in 1..Len(calls) :
          (calls[i].exchange # Pending /\ Len(calls') >= Len(calls))
            => (i <= Len(calls') /\ calls'[i].exchange # Pending)]_vars

\* C16 witness: a failed problem call has finished and nothing is outstanding.
C16_FailedCallNotReissued ==
  /\ currentStep = 2
  /\ aiGeneratedQuestions = ApiConnectError
  /\ calls = <<>>
  /\ ~loading

\* C17: no generation request is sent with an absent (empty) API key.
C17_NoRequestWithoutKey ==
  \A i \in 1..Len(calls) : calls[i].apiKey # EmptyString

Markers == {SolutionMarker, FeedbackMarker}

\* Position k of `text` lies inside the first occurrence of a marker
InFirstOccurrence(text, k) ==
  \E m \in Markers :
    LET p == FirstOccurrence(text, m)
    IN p # 0 /\ k >= p /\ k < p + Len(m)

\* `text` with the letters of each marker's first occurrence in lower case
RecaseFirst(text) ==
  [k \in 1..Len(text) |->
     IF InFirstOccurrence(text, k) THEN LowerChar(text[k])[1] ELSE text[k]]

\* Number of occurrences of `marker`, letter case ignored, in `text`
Occurrences(text, marker) ==
  Cardinality({p \in 1..Len(text) : OccursAt(text, p, marker)})

\* C18: the marker search ignores letter case and uses the first occurrence
\* of each marker only: the result is the same when the markers in the text
\* are written in another letter case, and every later occurrence of a
\* marker stays in the sections as ordinary text.
C18_CaseBlindFirstOccurrence ==
  currentStep = 4
    => /\ finalSolution = SplitSolution(RecaseFirst(response))
       /\ finalFeedback = SplitFeedback(RecaseFirst(response))
       /\ \A m \in Markers :
            FirstOccurrence(response, m) # 0
              => Occurrences(finalSolution, m) + Occurrences(finalFeedback, m)
                   = Occurrences(response, m) - 1

\* C18 restricted to texts in which U+0130 does not occur
C18_CaseBlindFirstOccurrenceNoDottedI ==
  (\A k \in 1..Len(response) : response[k] # "U+0130")
    => C18_CaseBlindFirstOccurrence

\* C19: every accepted submission eventually completes: whenever loading is
\* true it eventually becomes false again, with a submit or restart action
\* enabled.
C19_LoadingEventuallyEnds ==
  loading ~> (~loading /\ ((\E n \in 1..3 : ButtonEnabled(n)) \/ currentStep = 4))

\* C20: a rejected (blank-field) submission changes errorMessage only, and
\* the same step's button stays enabled.
C20_RejectionChangesOnlyError ==
  [][LET OnlyError(step) ==
           /\ UNCHANGED <<currentStep, loading, problemStatement,
                          aiGeneratedQuestions, userAnswersToQuestions,
                          supportingEvents, finalSolution, finalFeedback, calls>>
           /\ currentStep' = step
           /\ ~loading'
     IN /\ (handleProblemSubmit /\ OnlyWhiteSpace(problemStatement)) => OnlyError(1)
        /\ (handleQuestionsAnswered /\ OnlyWhiteSpace(userAnswersToQuestions))
             => OnlyError(2)
        /\ (handleEventsSubmitted /\ OnlyWhiteSpace(supportingEvents)) => OnlyError(3)]_vars

\* C20 witness: a white-space-only problem was rejected; its button is enabled.
C20_RejectedAtProblem ==
  /\ currentStep = 1
  /\ errorMessage = ProblemRequired
  /\ problemStatement = <<" ">>
  /\ ~loading
  /\ calls = <<>>

====
